---- MODULE Spec2Model ----
(***************************************************************************)
(* Model of the collective-boredom-dial room server (server/index.js).     *)
(*                                                                         *)
(* Strings are sequences of one-character strings, so that length tests,   *)
(* the room-code regular expression, slice(0, 20) and template strings are *)
(* computed on the characters.  Boredom values are JavaScript numbers; the *)
(* model stores them in fixed point, in units of 1/Scale, so that the      *)
(* fractional values of the simulated users and of incoming updates exist. *)
(* Room objects live on a heap: the registry maps a room id to an object,  *)
(* and every connection's handlers close over the object they joined.      *)
(* generateUserId is modelled as always returning a fresh identifier (64   *)
(* random bits); generateRoomCode may return any code, including one that  *)
(* is already registered (24 random bits, no uniqueness check).            *)
(***************************************************************************)
EXTENDS Integers, Sequences, FiniteSets, TLC

VARIABLES rooms, heap, conn, now, out, botTicks, proc, client

vars == <<rooms, heap, conn, now, out, botTicks, proc, client>>

----------------------------------------------------------------------------
(* Bounds of the model *)

MaxConns == 2
MaxRoomObjs == 3
MaxClockSteps == 2
MaxBotTicks == 1
MaxSockets == 3
Scale == 2

(* Program constants *)

DefaultBoredom == 50
MaxBoredom == 100
NameMax == 20
CodeLen == 6
IdleThreshold == 3600000

----------------------------------------------------------------------------
(* Strings *)

Null == <<"null">>

GLOBAL_ROOM_ID == <<"g", "l", "o", "b", "a", "l">>

GlobalRoomName ==
    <<"G", "l", "o", "b", "a", "l", " ", "B", "o", "r", "e", "d", "o", "m">>

UpperAlnum ==
    {"A", "B", "C", "D", "E", "F", "G", "H", "I", "J", "K", "L", "M",
     "N", "O", "P", "Q", "R", "S", "T", "U", "V", "W", "X", "Y", "Z",
     "0", "1", "2", "3", "4", "5", "6", "7", "8", "9"}

HexDigits ==
    <<"0", "1", "2", "3", "4", "5", "6", "7", "8", "9",
      "A", "B", "C", "D", "E", "F">>

\* s.slice(0, n)
Slice(s, n) == SubSeq(s, 1, IF Len(s) < n THEN Len(s) ELSE n)

\* a string is truthy iff it is present and non-empty
Truthy(s) == s # Null /\ s # <<>>

\* x || null
OrNull(s) == IF Truthy(s) THEN s ELSE Null

Conns == 1..MaxConns

NoConn == 0

----------------------------------------------------------------------------
(* JavaScript Map, in insertion order: a sequence of entries keyed by .id *)

MapHas(m, id) == \E i \in 1..Len(m) : m[i].id = id

MapIdx(m, id) == CHOOSE i \in 1..Len(m) : m[i].id = id

MapGet(m, id) == m[MapIdx(m, id)]

\* the entry always added at the end
MapSetAppend(m, id, e) == Append(m, e)

MapSet(m, id, e) ==
    IF MapHas(m, id) THEN [m EXCEPT ![MapIdx(m, id)] = e] ELSE Append(m, e)

\* the entry kept
MapDeleteNot(m, id) == m

MapDelete(m, id) == SelectSeq(m, LAMBDA e : e.id # id)

----------------------------------------------------------------------------
(* Numbers: a stored value v stands for the number v / Scale *)

Min(a, b) == IF a < b THEN a ELSE b

Max(a, b) == IF a > b THEN a ELSE b

\* Math.floor in the place of Math.round
MathRoundAsFloor(v) == v \div Scale

\* Math.round of the number v / Scale (halves round towards +Infinity)
MathRound(v) == (2 * v + Scale) \div (2 * Scale)

\* the mean truncated in the place of rounded
RoundedMeanAsTruncated(sum, count) == sum \div (Scale * count)

\* Math.round(sum / count) for a sum stored in units of 1/Scale
RoundedMean(sum, count) == (2 * sum + Scale * count) \div (2 * Scale * count)

RECURSIVE SumBoredom(_)
SumBoredom(es) ==
    IF es = <<>> THEN 0 ELSE es[1].boredom + SumBoredom(Tail(es))

----------------------------------------------------------------------------
(* Identifiers *)

\* generateUserId: the n-th identifier handed out, all distinct
generateUserId(n) == "user-" \o ToString(n)

\* two hex digits of one byte, upper case
HexByte(b) == <<HexDigits[(b \div 16) + 1], HexDigits[(b % 16) + 1]>>

\* generateRoomCode: crypto.randomBytes(3).toString('hex').toUpperCase()
generateRoomCode(bytes) ==
    HexByte(bytes[1]) \o HexByte(bytes[2]) \o HexByte(bytes[3])

\* the outcomes of crypto.randomBytes(3) the model draws from
RandomBytes3 == {<<171, 193, 35>>, <<0, 255, 16>>}

\* `Room ${roomId}`
DefaultRoomName(roomId) == <<"R", "o", "o", "m", " ">> \o roomId

----------------------------------------------------------------------------
(* Simulated users of the global room *)

bots ==
    << [id |-> "bot-restless",
        name |-> <<"R","e","s","t","l","e","s","s"," ","R","i","t","a">>,
        boredom |-> 65, volatility |-> 15, speed |-> 3000],
       [id |-> "bot-chill",
        name |-> <<"C","h","i","l","l"," ","C","h","a","r","l","i","e">>,
        boredom |-> 25, volatility |-> 8, speed |-> 7000],
       [id |-> "bot-moody",
        name |-> <<"M","o","o","d","y"," ","M","o","r","g","a","n">>,
        boredom |-> 50, volatility |-> 25, speed |-> 4000],
       [id |-> "bot-sleepy",
        name |-> <<"S","l","e","e","p","y"," ","S","a","m">>,
        boredom |-> 80, volatility |-> 10, speed |-> 10000] >>

globalRoom ==
    [users |-> [i \in 1..Len(bots) |->
                  [id |-> bots[i].id, boredom |-> bots[i].boredom * Scale,
                   ws |-> NoConn, isBot |-> TRUE, name |-> bots[i].name]],
     createdAt |-> 0,
     name |-> GlobalRoomName,
     isGlobal |-> TRUE]

\* a created room seeded with the bots
NewRoomSeeded(roomName, t) ==
    [users |-> [i \in 1..Len(bots) |->
                  [id |-> bots[i].id, boredom |-> bots[i].boredom * Scale,
                   ws |-> NoConn, isBot |-> TRUE, name |-> bots[i].name]],
     createdAt |-> t, name |-> roomName, isGlobal |-> FALSE]

NewRoom(roomName, t) ==
    [users |-> <<>>, createdAt |-> t, name |-> roomName, isGlobal |-> FALSE]

----------------------------------------------------------------------------
(* Aggregation *)

NullStats == [isNull |-> TRUE]

IsNullStats(s) == "isNull" \in DOMAIN s

getRoomStats(rms, hp, roomId) ==
    IF roomId \notin DOMAIN rms THEN NullStats
    ELSE
      LET room == hp[rms[roomId]]
          entries == room.users
          count == Len(entries)
          average == IF count > 0
                       THEN RoundedMean(SumBoredom(entries), count)
                       ELSE DefaultBoredom
          individuals == [i \in 1..count |->
                            [id |-> entries[i].id,
                             boredom |-> MathRound(entries[i].boredom),
                             isBot |-> entries[i].isBot,
                             name |-> OrNull(entries[i].name)]]
      IN [average |-> average, count |-> count, individuals |-> individuals,
          roomName |-> room.name, roomId |-> roomId]

----------------------------------------------------------------------------
(* Broadcast: the messages a broadcast for roomId sends to each connection, *)
(* in registry rms, heap hp, connections cn                                *)

StatsMessage(stats) ==
    [type |-> "stats", average |-> stats.average, count |-> stats.count,
     individuals |-> stats.individuals, roomName |-> stats.roomName,
     roomId |-> stats.roomId]

\* the loop given up at the first socket that is not open
RecipientsUntilFailure(users, cn) ==
    {c \in Conns : \E i \in 1..Len(users) :
                      /\ users[i].ws = c
                      /\ cn[c].readyState = "OPEN"
                      /\ \A j \in 1..(i - 1) :
                            \/ users[j].ws = NoConn
                            \/ cn[users[j].ws].readyState = "OPEN"}

\* the connections a broadcast for an existing room sends to
Recipients(users, cn) ==
    {c \in Conns : \E i \in 1..Len(users) :
                      users[i].ws = c /\ cn[c].readyState = "OPEN"}

NoSends == [c \in Conns |-> <<>>]

\* the payload sent to every open connection of the server
broadcastToAll(rms, hp, cn, roomId) ==
    IF roomId \notin DOMAIN rms THEN NoSends
    ELSE
      LET message == StatsMessage(getRoomStats(rms, hp, roomId))
      IN [c \in Conns |->
            IF cn[c].readyState = "OPEN" THEN <<message>> ELSE <<>>]

broadcastToRoom(rms, hp, cn, roomId) ==
    IF roomId \notin DOMAIN rms THEN NoSends
    ELSE
      LET room == hp[rms[roomId]]
          message == StatsMessage(getRoomStats(rms, hp, roomId))
      IN [c \in Conns |->
            IF c \in Recipients(room.users, cn) THEN <<message>> ELSE <<>>]

\* the second send put before the first
ThenReversed(s1, s2) == [c \in Conns |-> s2[c] \o s1[c]]

\* one send after another
Then(s1, s2) == [c \in Conns |-> s1[c] \o s2[c]]

\* what a step put on the wire: the WebSocket sends per connection, in
\* order, and the HTTP response
Output(sends, response) == [ws |-> sends, http |-> response]

----------------------------------------------------------------------------
(* State *)

NoResp == [status |-> 0]

\* closedAt is history the server does not keep: the time of the close event
NewConn ==
    [state |-> "CONNECTING", readyState |-> "CONNECTING", room |-> 0,
     roomId |-> Null, userId |-> "none", closedAt |-> 0]

\* the process: its phase, and the connections whose TCP connection has ended
Running == [phase |-> "running", ended |-> {}]

\* the page's connection hook, not mounted: no socket, no timer
NoClient ==
    [mounted |-> FALSE, deps |-> [roomId |-> Null, userName |-> Null],
     wsRef |-> 0, reconnectTimeoutRef |-> 0, sockets |-> <<>>, timers |-> <<>>]

Init ==
    /\ heap = <<globalRoom>>
    /\ rooms = (GLOBAL_ROOM_ID :> 1)
    /\ conn = [c \in Conns |-> NewConn]
    /\ now = 0
    /\ out = Output(NoSends, NoResp)
    /\ botTicks = 0
    /\ proc = Running
    /\ client = NoClient

----------------------------------------------------------------------------
(* Inputs *)

CodeA == generateRoomCode(<<171, 193, 35>>)

LongName == [i \in 1..(NameMax + 2) |-> HexDigits[((i - 1) % 16) + 1]]

ShortName == <<"B", "o">>

\* the `room` query parameter: absent, empty, the global id, a well-formed
\* code, six characters that are not all upper case, a five-character code
RoomParams ==
    {Null, <<>>, GLOBAL_ROOM_ID, CodeA,
     <<"a", "b", "c", "1", "2", "3">>, <<"A", "B", "C", "1", "2">>}

\* the `name` query parameter
NameParams == {Null, <<>>, LongName}

\* /^[A-Z0-9]+$/.test(s)
IsUpperAlnum(s) == Len(s) > 0 /\ \A i \in 1..Len(s) : s[i] \in UpperAlnum

\* the length test alone
LooksLikeCodeByLength(s) == Len(s) = CodeLen

LooksLikeCode(s) == Len(s) = CodeLen /\ IsUpperAlnum(s)

----------------------------------------------------------------------------
(* wss.on('connection') *)

\* the room id a connection asking for roomParam resolves to
ResolveRoomId(rms, roomParam) ==
    LET roomId == IF Truthy(roomParam) THEN roomParam ELSE GLOBAL_ROOM_ID
    IN IF roomId \in DOMAIN rms \/ LooksLikeCode(roomId)
         THEN roomId ELSE GLOBAL_ROOM_ID

\* the room created although it is registered
JoinCreatesRegistered(rms, roomParam) ==
    LooksLikeCode(IF Truthy(roomParam) THEN roomParam ELSE GLOBAL_ROOM_ID)

\* whether that connection creates the room
JoinCreates(rms, roomParam) ==
    LET roomId == IF Truthy(roomParam) THEN roomParam ELSE GLOBAL_ROOM_ID
    IN roomId \notin DOMAIN rms /\ LooksLikeCode(roomId)

JoinName(nameParam) == OrNull(nameParam)

WelcomeMessage(userId, roomId, roomName, stats) ==
    [type |-> "welcome", userId |-> userId, boredom |-> DefaultBoredom,
     average |-> stats.average, count |-> stats.count,
     individuals |-> stats.individuals, roomName |-> stats.roomName,
     roomId |-> stats.roomId]

Connection(c, roomParam, nameParam) ==
    /\ conn[c].state = "CONNECTING"
    /\ \A d \in Conns : d < c => conn[d].state # "CONNECTING"
    /\ JoinCreates(rooms, roomParam) => Len(heap) < MaxRoomObjs
    /\ LET roomId == ResolveRoomId(rooms, roomParam)
           create == JoinCreates(rooms, roomParam)
           heap1 == IF create
                      THEN Append(heap, NewRoom(DefaultRoomName(roomId), now))
                      ELSE heap
           rooms1 == IF create THEN (roomId :> Len(heap1)) @@ rooms ELSE rooms
           room == rooms1[roomId]
           userId == generateUserId(c)
           heap2 == [heap1 EXCEPT ![room].users =
                        MapSet(@, userId,
                               [id |-> userId,
                                boredom |-> DefaultBoredom * Scale,
                                ws |-> c, isBot |-> FALSE,
                                name |-> JoinName(nameParam)])]
           conn1 == [conn EXCEPT ![c] =
                        [state |-> "JOINED", readyState |-> "OPEN",
                         room |-> room, roomId |-> roomId, userId |-> userId,
                         closedAt |-> 0]]
           stats == getRoomStats(rooms1, heap2, roomId)
           msg == WelcomeMessage(userId, roomId, heap2[room].name, stats)
           sends == Then([NoSends EXCEPT ![c] = <<msg>>],
                         broadcastToRoom(rooms1, heap2, conn1, roomId))
       IN /\ rooms' = rooms1
          /\ heap' = heap2
          /\ conn' = conn1
          /\ out' = Output(sends, NoResp)
    /\ UNCHANGED <<now, botTicks, proc, client>>

----------------------------------------------------------------------------
(* ws.on('message') *)

\* an inbound frame: whether JSON.parse succeeds, and message.type,
\* message.boredom (numeric says typeof === 'number') and message.name
Msg(parses, type, numeric, boredom, name) ==
    [parses |-> parses, type |-> type, numeric |-> numeric,
     boredom |-> boredom, name |-> name]

\* boredom values sent, in units of 1/Scale: -1.5, 74.5, 250
UpdateInputs == {(-3 * Scale) \div 2, (149 * Scale) \div 2, 250 * Scale}

Messages ==
    {Msg(FALSE, "", FALSE, 0, Null),
     Msg(TRUE, "ping", FALSE, 0, Null),
     Msg(TRUE, "update", FALSE, 0, Null)}
    \cup {Msg(TRUE, "update", TRUE, b, Null) : b \in UpdateInputs}
    \cup {Msg(TRUE, "setName", FALSE, 0, n) : n \in {Null, <<>>, ShortName, LongName}}

\* the upper limit left out
ClampBoredomNoUpper(b) == Max(0, MathRound(b))

\* Math.max(0, Math.min(100, Math.round(message.boredom)))
ClampBoredom(b) == Max(0, Min(MaxBoredom, MathRound(b)))

\* the name stored as sent
TruncateNameNot(name) == name

\* message.name.slice(0, 20)
TruncateName(name) == Slice(name, NameMax)

\* the type of message.boredom not tested
AcceptsUpdateAnyBoredom(m) == m.parses /\ m.type = "update"

AcceptsUpdate(m) == m.parses /\ m.type = "update" /\ m.numeric

AcceptsSetName(m) == m.parses /\ m.type = "setName" /\ Truthy(m.name)

\* the handler, for the room and the participant id its closure holds
OnMessage(c, m) ==
    /\ LET room == conn[c].room
           roomId == conn[c].roomId
           userId == conn[c].userId
           doUpdate == AcceptsUpdate(m) /\ MapHas(heap[room].users, userId)
           heap1 == IF doUpdate
                      THEN [heap EXCEPT ![room].users =
                              MapSet(@, userId,
                                     [MapGet(@, userId) EXCEPT
                                        !.boredom = ClampBoredom(m.boredom) * Scale])]
                      ELSE heap
           sends1 == IF doUpdate
                       THEN broadcastToRoom(rooms, heap1, conn, roomId)
                       ELSE NoSends
           doName == AcceptsSetName(m) /\ MapHas(heap1[room].users, userId)
           heap2 == IF doName
                      THEN [heap1 EXCEPT ![room].users =
                              MapSet(@, userId,
                                     [MapGet(@, userId) EXCEPT
                                        !.name = TruncateName(m.name)])]
                      ELSE heap1
           sends2 == IF doName
                       THEN Then(sends1,
                                 broadcastToRoom(rooms, heap2, conn, roomId))
                       ELSE sends1
       IN /\ heap' = heap2
          /\ out' = Output(sends2, NoResp)
    /\ UNCHANGED <<rooms, conn, now, botTicks, proc, client>>

Message(c, m) == conn[c].state = "JOINED" /\ OnMessage(c, m)

\* the handler run for a frame that arrives after the close event
MessageAfterClose(c, m) == conn[c].state = "CLOSED" /\ OnMessage(c, m)

----------------------------------------------------------------------------
(* ws.on('close'), and the socket leaving the OPEN state before it *)

SocketClosing(c) ==
    /\ conn[c].state = "JOINED"
    /\ conn[c].readyState = "OPEN"
    /\ conn' = [conn EXCEPT ![c].readyState = "CLOSING"]
    /\ out' = Output(NoSends, NoResp)
    /\ UNCHANGED <<rooms, heap, now, botTicks, proc, client>>

Close(c) ==
    /\ conn[c].state = "JOINED"
    /\ LET room == conn[c].room
           roomId == conn[c].roomId
           heap1 == [heap EXCEPT ![room].users = MapDelete(@, conn[c].userId)]
           conn1 == [conn EXCEPT ![c].state = "CLOSED",
                                 ![c].readyState = "CLOSED",
                                 ![c].closedAt = now]
           sends == broadcastToRoom(rooms, heap1, conn1, roomId)
       IN /\ heap' = heap1
          /\ conn' = conn1
          /\ out' = Output(sends, NoResp)
    /\ UNCHANGED <<rooms, now, botTicks, proc, client>>

\* the close handler run once more for a connection that has closed
CloseAgain(c) ==
    /\ conn[c].state = "CLOSED"
    /\ LET room == conn[c].room
           roomId == conn[c].roomId
           heap1 == [heap EXCEPT ![room].users = MapDelete(@, conn[c].userId)]
           sends == broadcastToRoom(rooms, heap1, conn, roomId)
       IN /\ heap' = heap1
          /\ out' = Output(sends, NoResp)
    /\ UNCHANGED <<rooms, conn, now, botTicks, proc, client>>

\* ws.on('error'): the error is logged, nothing else
Error(c) ==
    /\ conn[c].state = "JOINED"
    /\ out' = Output(NoSends, NoResp)
    /\ UNCHANGED <<rooms, heap, conn, now, botTicks, proc, client>>

----------------------------------------------------------------------------
(* Time, and the cleanup timer *)

TimeStep == IdleThreshold

Tick ==
    /\ now < MaxClockSteps * TimeStep
    /\ now' = now + TimeStep
    /\ out' = Output(NoSends, NoResp)
    /\ UNCHANGED <<rooms, heap, conn, botTicks, proc, client>>

\* Array.from(room.users.values()).filter(u => u.ws)
RealUsers(room) == SelectSeq(room.users, LAMBDA u : u.ws # NoConn)

\* the global room not exempted
ExpiredGlobalToo(rms, hp, t, roomId) ==
    /\ Len(SelectSeq(hp[rms[roomId]].users, LAMBDA u : u.ws # NoConn)) = 0
    /\ t - hp[rms[roomId]].createdAt > IdleThreshold

\* the age compared with >= in the place of >
ExpiredAtThreshold(rms, hp, t, roomId) ==
    /\ roomId # GLOBAL_ROOM_ID
    /\ Len(SelectSeq(hp[rms[roomId]].users, LAMBDA u : u.ws # NoConn)) = 0
    /\ t - hp[rms[roomId]].createdAt >= IdleThreshold

\* the condition under which the cleanup callback deletes roomId
Expired(rms, hp, t, roomId) ==
    /\ roomId # GLOBAL_ROOM_ID
    /\ Len(RealUsers(hp[rms[roomId]])) = 0
    /\ t - hp[rms[roomId]].createdAt > IdleThreshold

Cleanup ==
    /\ rooms' = [roomId \in {r \in DOMAIN rooms : ~Expired(rooms, heap, now, r)}
                   |-> rooms[roomId]]
    /\ out' = Output(NoSends, NoResp)
    /\ UNCHANGED <<heap, conn, now, botTicks, proc, client>>

----------------------------------------------------------------------------
(* Bot simulation timers *)

CeilDiv(a, b) == -((-a) \div b)

\* Math.random() is a real in [0, 1): cur + drift + randomChange ranges over
\* an interval of that width times the volatility.  The model draws the
\* extremes of it that lie on the grid of 1/Scale: the lowest and the
\* highest value the sum can take.  In units of 1/(10 * Scale) the sum is
\* 9 * cur + target, plus or minus 5 * volatility.
RandomDraws == {"lowest", "highest"}

BotSum(bot, cur, draw) ==
    LET mid == 9 * cur + bot.boredom * Scale
        half == 5 * bot.volatility * Scale
    IN IF draw = "lowest" THEN CeilDiv(mid - half, 10)
       ELSE CeilDiv(mid + half, 10) - 1

\* Math.max(0, Math.min(100, sum)), not rounded
\* the upper limit left out
ClampStoredNoUpper(v) == Max(0, v)

ClampStored(v) == Max(0, Min(MaxBoredom * Scale, v))

BotTick(i, draw) ==
    /\ botTicks < MaxBotTicks
    /\ botTicks' = botTicks + 1
    /\ IF GLOBAL_ROOM_ID \in DOMAIN rooms
          /\ MapHas(heap[rooms[GLOBAL_ROOM_ID]].users, bots[i].id)
         THEN LET room == rooms[GLOBAL_ROOM_ID]
                  user == MapGet(heap[room].users, bots[i].id)
                  sum == BotSum(bots[i], user.boredom, draw)
                  heap1 == [heap EXCEPT ![room].users =
                              MapSet(@, bots[i].id,
                                     [user EXCEPT !.boredom = ClampStored(sum)])]
                  sends == broadcastToRoom(rooms, heap1, conn, GLOBAL_ROOM_ID)
              IN /\ heap' = heap1
                 /\ out' = Output(sends, NoResp)
         ELSE /\ out' = Output(NoSends, NoResp)
              /\ UNCHANGED heap
    /\ UNCHANGED <<rooms, conn, now, proc, client>>

----------------------------------------------------------------------------
(* HTTP server *)

HealthBody(rms, hp) ==
    LET stats == getRoomStats(rms, hp, GLOBAL_ROOM_ID)
    IN [status |-> "ok", rooms |-> Cardinality(DOMAIN rms),
        globalUsers |-> IF IsNullStats(stats) THEN 0 ELSE stats.count]

Health ==
    /\ out' = Output(NoSends, [status |-> 200, body |-> HealthBody(rooms, heap)])
    /\ UNCHANGED <<rooms, heap, conn, now, botTicks, proc, client>>

\* request bodies of POST /api/rooms: whether JSON.parse(body || '{}')
\* succeeds, and data.name
Bodies ==
    {[parses |-> FALSE, name |-> Null], [parses |-> TRUE, name |-> Null],
     [parses |-> TRUE, name |-> ShortName]}

\* the body taken as parsed whatever it is
BodyParsesAlways(body) == TRUE

\* JSON.parse(body || '{}') does not throw
BodyParses(body) == body.parses

CreatedRoomName(body, roomId) ==
    IF Truthy(body.name) THEN body.name ELSE DefaultRoomName(roomId)

PostRooms(body, bytes) ==
    /\ IF BodyParses(body)
         THEN LET roomId == generateRoomCode(bytes)
                  roomName == CreatedRoomName(body, roomId)
              IN /\ Len(heap) < MaxRoomObjs
                 /\ heap' = Append(heap, NewRoom(roomName, now))
                 /\ rooms' = [r \in DOMAIN rooms \cup {roomId} |->
                                IF r = roomId THEN Len(heap) + 1 ELSE rooms[r]]
                 /\ out' = Output(NoSends,
                                  [status |-> 200,
                                   body |-> [roomId |-> roomId,
                                             roomName |-> roomName]])
         ELSE /\ out' = Output(NoSends,
                               [status |-> 400,
                                body |-> [error |-> "Invalid request"]])
              /\ UNCHANGED <<rooms, heap>>
    /\ UNCHANGED <<conn, now, botTicks, proc, client>>

\* room ids asked for by GET /api/rooms/:roomId
RoomIds == {GLOBAL_ROOM_ID} \cup {generateRoomCode(b) : b \in RandomBytes3}

\* the stats served without looking the room up
GetRoomResponseAlways200(rms, hp, roomId) ==
    [status |-> 200, body |-> getRoomStats(rms, hp, roomId)]

GetRoomResponse(rms, hp, roomId) ==
    IF roomId \in DOMAIN rms
      THEN [status |-> 200, body |-> getRoomStats(rms, hp, roomId)]
      ELSE [status |-> 404, body |-> [error |-> "Room not found"]]

\* the request creating the room it does not find
GetRoomCreating(roomId) ==
    /\ out' = Output(NoSends, GetRoomResponse(rooms, heap, roomId))
    /\ IF roomId \notin DOMAIN rooms /\ Len(heap) < MaxRoomObjs
         THEN /\ heap' = Append(heap, NewRoom(DefaultRoomName(roomId), now))
              /\ rooms' = (roomId :> Len(heap) + 1) @@ rooms
         ELSE UNCHANGED <<rooms, heap>>
    /\ UNCHANGED <<conn, now, botTicks, proc, client>>

GetRoom(roomId) ==
    /\ out' = Output(NoSends, GetRoomResponse(rooms, heap, roomId))
    /\ UNCHANGED <<rooms, heap, conn, now, botTicks, proc, client>>

----------------------------------------------------------------------------

(* The real-time channel: connections and every kind of message *)

NextChannel ==
    \/ \E c \in Conns, rp \in {Null, CodeA}, np \in NameParams : Connection(c, rp, np)
    \/ \E c \in Conns, m \in Messages : Message(c, m)
    \/ \E c \in Conns : SocketClosing(c)
    \/ \E c \in Conns : Close(c)

SpecChannel == Init /\ [][NextChannel]_vars

(* The tables the aggregation sees: joins, updates, closes and bot ticks *)

NextStats ==
    \/ \E c \in Conns, rp \in {Null, CodeA}, np \in {Null, LongName} : Connection(c, rp, np)
    \/ \E c \in Conns, b \in UpdateInputs : Message(c, Msg(TRUE, "update", TRUE, b, Null))
    \/ \E c \in Conns : Close(c)
    \/ \E i \in 1..Len(bots), draw \in RandomDraws : BotTick(i, draw)

SpecStats == Init /\ [][NextStats]_vars

(* The room registry: joins, room creation, time and the cleanup timer *)

UpdateHigh == Msg(TRUE, "update", TRUE, 250 * Scale, Null)

NextRegistry ==
    \/ \E c \in Conns, rp \in RoomParams : Connection(c, rp, Null)
    \/ \E c \in Conns : Message(c, UpdateHigh)
    \/ \E c \in Conns : SocketClosing(c)
    \/ \E c \in Conns : Close(c)
    \/ Tick
    \/ Cleanup
    \/ \E body \in Bodies, bytes \in RandomBytes3 : PostRooms(body, bytes)

SpecRegistry == Init /\ [][NextRegistry]_vars

(* Every handler and timer, with one connection *)

NextServer ==
    \/ \E rp \in RoomParams : Connection(1, rp, Null)
    \/ Message(1, UpdateHigh)
    \/ SocketClosing(1)
    \/ Close(1)
    \/ Error(1)
    \/ Tick
    \/ Cleanup
    \/ \E i \in 1..Len(bots), draw \in RandomDraws : BotTick(i, draw)
    \/ Health
    \/ \E body \in Bodies, bytes \in RandomBytes3 : PostRooms(body, bytes)
    \/ \E roomId \in RoomIds : GetRoom(roomId)

SpecServer == Init /\ [][NextServer]_vars

(* Broadcasts: every step that ends in a broadcast, sockets that are no *)
(* longer open, and socket errors                                        *)

NextBroadcast ==
    \/ \E c \in Conns, rp \in {Null, CodeA} : Connection(c, rp, Null)
    \/ \E c \in Conns : Message(c, UpdateHigh)
    \/ \E c \in Conns : Message(c, Msg(TRUE, "setName", FALSE, 0, ShortName))
    \/ \E c \in Conns : SocketClosing(c)
    \/ \E c \in Conns : Close(c)
    \/ \E c \in Conns : Error(c)
    \/ \E i \in 1..Len(bots), draw \in RandomDraws : BotTick(i, draw)

SpecBroadcast == Init /\ [][NextBroadcast]_vars

(* The bot timers from the values the bots can have after many ticks: the *)
(* start values, and values at the limits 0 and 100 that the random walk  *)
(* of each profile reaches (65 +- 7.5 per tick, 50 +- 12.5 and 80 +- 5    *)
(* reach 100; 65, 25 +- 4 and 50 reach 0)                                 *)

BotStarts ==
    {<<65, 25, 50, 80>>, <<100, 0, 100, 100>>, <<0, 0, 0, 100>>}

InitBots ==
    /\ \E vals \in BotStarts :
          heap = <<[globalRoom EXCEPT !.users =
                      [i \in 1..Len(bots) |->
                         [@[i] EXCEPT !.boredom = vals[i] * Scale]]]>>
    /\ rooms = (GLOBAL_ROOM_ID :> 1)
    /\ conn = [c \in Conns |-> NewConn]
    /\ now = 0
    /\ out = Output(NoSends, NoResp)
    /\ botTicks = 0
    /\ proc = Running
    /\ client = NoClient

SpecBots == InitBots /\ [][NextStats]_vars

(* Shutdown *)

\* process.on('SIGTERM'): client.close() for every client of the server,
\* then server.close(), which stops accepting connections
Sigterm ==
    /\ proc.phase = "running"
    /\ proc' = [proc EXCEPT !.phase = "stopping"]
    /\ conn' = [c \in Conns |->
                  IF conn[c].state = "JOINED" /\ conn[c].readyState = "OPEN"
                    THEN [conn[c] EXCEPT !.readyState = "CLOSING"]
                    ELSE conn[c]]
    /\ out' = Output(NoSends, NoResp)
    /\ UNCHANGED <<rooms, heap, now, botTicks, client>>

\* the TCP connection of a closing socket ends; the close event of the
\* WebSocket, and with it the close handler, comes after
SocketEnd(c) ==
    /\ conn[c].state = "JOINED"
    /\ conn[c].readyState = "CLOSING"
    /\ c \notin proc.ended
    /\ proc' = [proc EXCEPT !.ended = @ \cup {c}]
    /\ out' = Output(NoSends, NoResp)
    /\ UNCHANGED <<rooms, heap, conn, now, botTicks, client>>

\* the callback of server.close(): every connection of the server has
\* ended; process.exit(0)
Exit ==
    /\ proc.phase = "stopping"
    /\ \A c \in Conns : conn[c].state = "JOINED" => c \in proc.ended
    /\ proc' = [proc EXCEPT !.phase = "exited"]
    /\ out' = Output(NoSends, NoResp)
    /\ UNCHANGED <<rooms, heap, conn, now, botTicks, client>>

\* connections are accepted until the server closes, handlers run until the
\* process exits, and a close handler runs after the connection has ended
NextShutdown ==
    \/ /\ proc.phase = "running"
       /\ \E c \in Conns, rp \in {Null, CodeA} : Connection(c, rp, Null)
    \/ /\ proc.phase # "exited"
       /\ \E c \in Conns : Message(c, UpdateHigh)
    \/ /\ proc.phase # "exited"
       /\ \E c \in Conns : SocketClosing(c)
    \/ /\ proc.phase # "exited"
       /\ \E c \in Conns : SocketEnd(c)
    \/ /\ proc.phase # "exited"
       /\ \E c \in Conns : c \in proc.ended /\ Close(c)
    \/ Sigterm
    \/ Exit

\* close events are processed while the process runs
SpecShutdown ==
    /\ Init
    /\ [][NextShutdown]_vars
    /\ WF_vars(\E c \in Conns : SocketEnd(c))
    /\ WF_vars(proc.phase # "exited" /\ \E c \in Conns : c \in proc.ended /\ Close(c))
    /\ WF_vars(Exit)

(* The client's connection hook (App.js, useWebSocket): one hook instance, *)
(* the sockets it has created and the reconnect timeouts it has set.       *)
(* wsRef and reconnectTimeoutRef hold a position in these, or 0 for null.  *)

\* the arguments of the hook, which the connect callback and the effect
\* depend on
ClientDeps ==
    {[roomId |-> GLOBAL_ROOM_ID, userName |-> Null],
     [roomId |-> CodeA, userName |-> Null],
     [roomId |-> CodeA, userName |-> ShortName]}

\* connect(), as created for the arguments deps: new WebSocket(wsUrl),
\* wsRef.current = ws
connect(cl, deps) ==
    [cl EXCEPT !.sockets = Append(@, [deps |-> deps, readyState |-> "CONNECTING"]),
               !.wsRef = Len(cl.sockets) + 1]

\* the cleanup of the effect: clearTimeout(reconnectTimeoutRef.current) and
\* wsRef.current.close(), each when the ref is set
effectCleanup(cl) ==
    [cl EXCEPT
       !.timers = [t \in 1..Len(cl.timers) |->
                     IF t = cl.reconnectTimeoutRef /\ cl.timers[t].state = "pending"
                       THEN [cl.timers[t] EXCEPT !.state = "cleared"]
                       ELSE cl.timers[t]],
       !.sockets = [s \in 1..Len(cl.sockets) |->
                      IF s = cl.wsRef
                         /\ cl.sockets[s].readyState \in {"CONNECTING", "OPEN"}
                        THEN [cl.sockets[s] EXCEPT !.readyState = "CLOSING"]
                        ELSE cl.sockets[s]]]

\* the hook is mounted: the effect runs connect()
Mount(deps) ==
    /\ client = NoClient
    /\ client' = connect([client EXCEPT !.mounted = TRUE, !.deps = deps], deps)
    /\ UNCHANGED <<rooms, heap, conn, now, out, botTicks, proc>>

\* the room id or the user name changes: the cleanup of the effect runs,
\* then the effect with the new connect
ChangeDeps(deps) ==
    /\ client.mounted
    /\ deps # client.deps
    /\ Len(client.sockets) < MaxSockets
    /\ client' = connect([effectCleanup(client) EXCEPT !.deps = deps], deps)
    /\ UNCHANGED <<rooms, heap, conn, now, out, botTicks, proc>>

Unmount ==
    /\ client.mounted
    /\ client' = [effectCleanup(client) EXCEPT !.mounted = FALSE]
    /\ UNCHANGED <<rooms, heap, conn, now, out, botTicks, proc>>

\* ws.onopen
onopen(s) ==
    /\ s \in 1..Len(client.sockets)
    /\ client.sockets[s].readyState = "CONNECTING"
    /\ client' = [client EXCEPT !.sockets[s].readyState = "OPEN"]
    /\ UNCHANGED <<rooms, heap, conn, now, out, botTicks, proc>>

\* ws.onclose of socket s, closed by the server, by the network or by
\* close(): wsRef.current = null, and a timeout is set that will run the
\* connect this socket was created by
onclose(s) ==
    /\ s \in 1..Len(client.sockets)
    /\ client.sockets[s].readyState # "CLOSED"
    /\ client' = [client EXCEPT
                    !.sockets[s].readyState = "CLOSED",
                    !.wsRef = 0,
                    !.timers = Append(@, [deps |-> client.sockets[s].deps,
                                          state |-> "pending"]),
                    !.reconnectTimeoutRef = Len(client.timers) + 1]
    /\ UNCHANGED <<rooms, heap, conn, now, out, botTicks, proc>>

\* the timeout set by an onclose runs: connect()
ReconnectTimeout(t) ==
    /\ t \in 1..Len(client.timers)
    /\ client.timers[t].state = "pending"
    /\ Len(client.sockets) < MaxSockets
    /\ client' = connect([client EXCEPT !.timers[t].state = "fired"],
                         client.timers[t].deps)
    /\ UNCHANGED <<rooms, heap, conn, now, out, botTicks, proc>>

NextClient ==
    \/ \E deps \in ClientDeps : Mount(deps)
    \/ \E deps \in ClientDeps : ChangeDeps(deps)
    \/ Unmount
    \/ \E s \in 1..MaxSockets : onopen(s)
    \/ \E s \in 1..MaxSockets : onclose(s)
    \/ \E t \in 1..MaxSockets : ReconnectTimeout(t)

SpecClient == Init /\ [][NextClient]_vars

(* Every handler of the server and of the client hook *)

Next ==
    \/ \E c \in Conns, rp \in RoomParams, np \in NameParams : Connection(c, rp, np)
    \/ \E c \in Conns, m \in Messages : Message(c, m)
    \/ \E c \in Conns : SocketClosing(c)
    \/ \E c \in Conns : Close(c)
    \/ \E c \in Conns : Error(c)
    \/ \E c \in Conns : CloseAgain(c)
    \/ \E c \in Conns, m \in Messages : MessageAfterClose(c, m)
    \/ Tick
    \/ Cleanup
    \/ \E i \in 1..Len(bots), draw \in RandomDraws : BotTick(i, draw)
    \/ Health
    \/ \E body \in Bodies, bytes \in RandomBytes3 : PostRooms(body, bytes)
    \/ \E roomId \in RoomIds : GetRoom(roomId)
    \/ Sigterm
    \/ \E c \in Conns : SocketEnd(c)
    \/ Exit
    \/ NextClient

Spec == Init /\ [][Next]_vars

(* Events after the close: the handlers run for a connection that has *)
(* closed                                                              *)

NextClosed ==
    \/ \E c \in Conns, rp \in {Null, CodeA} : Connection(c, rp, Null)
    \/ \E c \in Conns : Message(c, UpdateHigh)
    \/ \E c \in Conns : SocketClosing(c)
    \/ \E c \in Conns : Close(c)
    \/ \E c \in Conns : CloseAgain(c)
    \/ \E c \in Conns, m \in Messages : MessageAfterClose(c, m)

SpecClosed == Init /\ [][NextClosed]_vars

----------------------------------------------------------------------------
(* Properties *)

\* the stored values of a table, added up
Total(users) ==
    LET acc[i \in 0..Len(users)] ==
          IF i = 0 THEN 0 ELSE acc[i - 1] + users[i].boredom
    IN acc[Len(users)]

\* a is the integer nearest to the number v / d (d > 0), halves going up:
\* a - 1/2 <= v / d < a + 1/2
Nearest(a, v, d) == (2 * a - 1) * d <= 2 * v /\ 2 * v < (2 * a + 1) * d

\* C1: for every room of the registry, the average getRoomStats returns is
\* the integer nearest to the arithmetic mean of all stored values of the
\* table, bots and live users alike and unrounded, when the table is not
\* empty, and 50 when it is empty.
C1_AverageIsRoundedMean ==
    \A r \in DOMAIN rooms :
       LET users == heap[rooms[r]].users
           stats == getRoomStats(rooms, heap, r)
       IN IF Len(users) = 0
            THEN stats.count = 0 /\ stats.average = 50
            ELSE Nearest(stats.average, Total(users), Scale * Len(users))

\* an empty room and a room whose mean lies exactly halfway between two
\* integers are both registered
C1_Witness ==
    /\ \E r \in DOMAIN rooms : Len(heap[rooms[r]].users) = 0
    /\ \E r \in DOMAIN rooms :
          LET users == heap[rooms[r]].users
          IN /\ Len(users) > 0
             /\ \E u \in 1..Len(users) : ~users[u].isBot
             /\ \E a \in 0..MaxBoredom :
                   2 * Total(users) = (2 * a - 1) * Scale * Len(users)

\* C2: for every room of the registry, count is the number of entries of the
\* table, and individuals holds exactly one element per entry, with the
\* entry's id, its value rounded to the nearest integer, its bot flag, and
\* its name, or null when the entry has none.
C2_CountAndIndividuals ==
    \A r \in DOMAIN rooms :
       LET users == heap[rooms[r]].users
           stats == getRoomStats(rooms, heap, r)
       IN /\ stats.count = Len(users)
          /\ Len(stats.individuals) = Len(users)
          /\ \A i \in 1..Len(users) :
                /\ Cardinality({j \in 1..Len(stats.individuals) :
                                  stats.individuals[j].id = users[i].id}) = 1
                /\ \E j \in 1..Len(stats.individuals) :
                      LET ind == stats.individuals[j]
                      IN /\ ind.id = users[i].id
                         /\ Nearest(ind.boredom, users[i].boredom, Scale)
                         /\ ind.isBot = users[i].isBot
                         /\ ind.name = users[i].name

\* a table holds a bot whose stored value is not an integer, a live user
\* with a name and a live user without one
C2_Witness ==
    \E r \in DOMAIN rooms :
       LET users == heap[rooms[r]].users
       IN /\ \E i \in 1..Len(users) :
                users[i].isBot /\ users[i].boredom % Scale # 0
          /\ \E i \in 1..Len(users) : ~users[i].isBot /\ users[i].name = Null
          /\ \E i \in 1..Len(users) : ~users[i].isBot /\ users[i].name # Null

\* the table entry of connection c, in the room its handlers closed over
EntryOf(cn, hp, c) ==
    LET users == hp[cn[c].room].users
    IN users[CHOOSE i \in 1..Len(users) : users[i].ws = c]

IsOpen(cn, c) == cn[c].state = "JOINED" /\ cn[c].readyState = "OPEN"

\* average, count and individuals of a message or of stats
Content(m) == <<m.average, m.count, m.individuals>>

UpdateMsg(b) == Msg(TRUE, "update", TRUE, b, Null)

SetNameMsg(n) == Msg(TRUE, "setName", FALSE, 0, n)

\* C3: every JOINED connection with an open socket has last received a
\* message with the stats of the current table of its room.  Step by step:
\* when a step sends the connection something, the last message sent carries
\* the stats of the table the registry holds for its room id after the step;
\* when a step sends it nothing, it was joined and open before and those
\* stats did not change in the step.
C3_LastMessageIsCurrentStats ==
    [][\A c \in Conns :
         IsOpen(conn', c) =>
           /\ conn'[c].roomId \in DOMAIN rooms'
           /\ LET sent == out'.ws[c]
                  after == getRoomStats(rooms', heap', conn'[c].roomId)
              IN IF sent # <<>>
                   THEN Content(sent[Len(sent)]) = Content(after)
                   ELSE /\ IsOpen(conn, c)
                        /\ conn[c].roomId \in DOMAIN rooms
                        /\ Content(getRoomStats(rooms, heap, conn[c].roomId))
                             = Content(after)]_vars

\* C4: the stored value of every live participant is a whole number in
\* [0, 100] in every state; it is 50 after the join, and after an update with
\* a numeric boredom it is the input rounded to the nearest integer and then
\* limited to [0, 100]: 0 for an input below 1/2, 100 for an input of 99.5
\* or more, the nearest integer in between.
C4_ValueInvariant ==
    \A k \in 1..Len(heap) : \A i \in 1..Len(heap[k].users) :
       ~heap[k].users[i].isBot =>
          /\ heap[k].users[i].boredom % Scale = 0
          /\ heap[k].users[i].boredom >= 0
          /\ heap[k].users[i].boredom <= 100 * Scale

\* the step is the join of connection c
Joins(c) == conn[c].state = "CONNECTING" /\ conn'[c].state = "JOINED"

C4_ValueStep ==
    \A c \in Conns :
       /\ Joins(c) => EntryOf(conn', heap', c).boredom = 50 * Scale
       /\ \A b \in UpdateInputs :
             conn' = conn /\ Message(c, UpdateMsg(b)) =>
                LET v == EntryOf(conn', heap', c).boredom
                IN IF 2 * b < Scale THEN v = 0
                   ELSE IF 2 * b >= 199 * Scale THEN v = 100 * Scale
                   ELSE v % Scale = 0 /\ Nearest(v \div Scale, b, Scale)

C4_LiveValuesClamped ==
    C4_ValueInvariant /\ [][C4_ValueInvariant' /\ C4_ValueStep]_vars

\* live participants hold 0, 75 and 100: updates below the range, with a
\* fraction, and above the range have been handled
C4_Witness ==
    /\ \E c \in Conns : conn[c].state = "JOINED"
                         /\ EntryOf(conn, heap, c).boredom = 100 * Scale
    /\ \E c \in Conns : conn[c].state = "JOINED"
                         /\ EntryOf(conn, heap, c).boredom \in {0, 75 * Scale}

\* C5: after a setName with a non-empty name the sender's stored name is the
\* first 20 characters of the name sent, and the connections with an open
\* socket in the room's table are sent the stats that show it; a setName with
\* an empty or absent name changes nothing and sends nothing.
C5_SetNameStep ==
    \A c \in Conns : \A n \in {Null, <<>>, ShortName, LongName} :
       conn' = conn /\ Message(c, SetNameMsg(n)) =>
          IF n # Null /\ Len(n) > 0
            THEN LET stored == EntryOf(conn', heap', c).name
                     roomId == conn[c].roomId
                 IN /\ Len(stored) = (IF Len(n) < 20 THEN Len(n) ELSE 20)
                    /\ \A i \in 1..Len(stored) : stored[i] = n[i]
                    /\ \A d \in Conns :
                          IsOpen(conn, d) /\ conn[d].room = rooms[roomId] =>
                             /\ Len(out'.ws[d]) = 1
                             /\ out'.ws[d][1].type = "stats"
                             /\ Content(out'.ws[d][1]) =
                                  Content(getRoomStats(rooms', heap', roomId))
                             /\ \E j \in 1..Len(out'.ws[d][1].individuals) :
                                   /\ out'.ws[d][1].individuals[j].id = conn[c].userId
                                   /\ out'.ws[d][1].individuals[j].name = stored
            ELSE /\ UNCHANGED <<rooms, heap, conn, now>>
                 /\ out'.ws = NoSends

C5_SetNameTruncates == [][C5_SetNameStep]_vars

\* a name of 20 characters is stored, cut from the longer name sent, and the
\* stats sent in that step show it to another connection
C5_Witness ==
    \E c \in Conns, d \in Conns :
       /\ c # d
       /\ conn[c].state = "JOINED"
       /\ EntryOf(conn, heap, c).name = SubSeq(LongName, 1, 20)
       /\ Len(out.ws[d]) = 1
       /\ \E j \in 1..Len(out.ws[d][1].individuals) :
             /\ out.ws[d][1].individuals[j].id = conn[c].userId
             /\ out.ws[d][1].individuals[j].name = SubSeq(LongName, 1, 20)

\* C6: the name of every participant entry is absent or at most 20
\* characters long, however it was set.
C6_NamesAtMost20 ==
    \A k \in 1..Len(heap) : \A i \in 1..Len(heap[k].users) :
       heap[k].users[i].name = Null \/ Len(heap[k].users[i].name) <= 20

\* a room id of exactly six characters, each an upper-case letter or a digit
WellFormed(rp) ==
    /\ rp # Null
    /\ Len(rp) = 6
    /\ \A i \in 1..Len(rp) : rp[i] \in UpperAlnum

\* no room id is supplied
Absent(rp) == rp = Null \/ rp = <<>>

\* the table users2 is the table users1 followed by one live entry of c
Inserted(users1, users2, c, userId) ==
    /\ Len(users2) = Len(users1) + 1
    /\ SubSeq(users2, 1, Len(users1)) = users1
    /\ users2[Len(users2)].id = userId
    /\ users2[Len(users2)].ws = c
    /\ ~users2[Len(users2)].isBot
    /\ \A i \in 1..Len(users1) : users1[i].id # userId

\* the first message a step sends to c is the welcome of c to roomId
Welcomed(o, cn, c, roomId) ==
    /\ Len(o.ws[c]) >= 1
    /\ o.ws[c][1].type = "welcome"
    /\ o.ws[c][1].userId = cn[c].userId
    /\ o.ws[c][1].roomId = roomId
    /\ \A i \in 1..Len(o.ws[c]) : o.ws[c][i].type \in {"welcome", "stats"}
    /\ o.http = NoResp

\* C7: a connection that supplies no room id, or one that is neither in the
\* registry nor six characters of upper-case letters and digits, joins the
\* global room: the registry and every other room are as before, the
\* participant is appended to the global room's table, and the welcome names
\* the global room; nothing but welcome and stats is sent.
C7_FallbackStep ==
    \A c \in Conns :
       Joins(c) =>
          \A rp \in RoomParams, np \in NameParams :
             /\ Connection(c, rp, np)
             /\ Absent(rp) \/ (rp \notin DOMAIN rooms /\ ~WellFormed(rp))
             => /\ rooms' = rooms
                /\ Len(heap') = Len(heap)
                /\ \A k \in 1..Len(heap) :
                      k # rooms[GLOBAL_ROOM_ID] => heap'[k] = heap[k]
                /\ conn'[c].room = rooms[GLOBAL_ROOM_ID]
                /\ heap'[rooms[GLOBAL_ROOM_ID]].isGlobal
                /\ Inserted(heap[rooms[GLOBAL_ROOM_ID]].users,
                            heap'[rooms[GLOBAL_ROOM_ID]].users,
                            c, conn'[c].userId)
                /\ Welcomed(out', conn', c, GLOBAL_ROOM_ID)

C7_FallbackToGlobal == [][C7_FallbackStep]_vars

\* a connection has just been welcomed to the global room while no other
\* room is registered
C7_Witness ==
    \E c \in Conns :
       /\ conn[c].state = "JOINED"
       /\ conn[c].room = rooms[GLOBAL_ROOM_ID]
       /\ Welcomed(out, conn, c, GLOBAL_ROOM_ID)
       /\ DOMAIN rooms = {GLOBAL_ROOM_ID}

\* C8: a connection whose room id is six characters of upper-case letters and
\* digits and is not registered creates a room with that id: not global,
\* named "Room " + id, created now, with the joiner as its only entry, and
\* the welcome shows count 1 and average 50; every registered room is as
\* before.  A connection whose room id is registered joins that room: no
\* room is created, and the room's name, creation time and flag are as
\* before.
C8_JoinStep ==
    \A c \in Conns :
       Joins(c) =>
          \A rp \in RoomParams, np \in NameParams :
             Connection(c, rp, np) /\ ~Absent(rp) =>
                IF rp \in DOMAIN rooms
                  THEN /\ rooms' = rooms
                       /\ Len(heap') = Len(heap)
                       /\ conn'[c].room = rooms[rp]
                       /\ heap'[rooms[rp]].name = heap[rooms[rp]].name
                       /\ heap'[rooms[rp]].createdAt = heap[rooms[rp]].createdAt
                       /\ heap'[rooms[rp]].isGlobal = heap[rooms[rp]].isGlobal
                       /\ Inserted(heap[rooms[rp]].users, heap'[rooms[rp]].users,
                                   c, conn'[c].userId)
                       /\ Welcomed(out', conn', c, rp)
                  ELSE WellFormed(rp) =>
                       /\ DOMAIN rooms' = DOMAIN rooms \cup {rp}
                       /\ \A r \in DOMAIN rooms :
                             rooms'[r] = rooms[r] /\ heap'[rooms[r]] = heap[rooms[r]]
                       /\ rooms'[rp] = Len(heap) + 1
                       /\ Len(heap') = Len(heap) + 1
                       /\ conn'[c].room = rooms'[rp]
                       /\ ~heap'[rooms'[rp]].isGlobal
                       /\ heap'[rooms'[rp]].name = <<"R", "o", "o", "m", " ">> \o rp
                       /\ heap'[rooms'[rp]].createdAt = now
                       /\ Inserted(<<>>, heap'[rooms'[rp]].users, c, conn'[c].userId)
                       /\ Welcomed(out', conn', c, rp)
                       /\ out'.ws[c][1].count = 1
                       /\ out'.ws[c][1].average = 50

C8_JoinCreatesOrJoins == [][C8_JoinStep]_vars

\* the only room ever created has the default name and the time of now, one
\* connection is in it, and the other has just joined it as the second
C8_Witness ==
    \E c \in Conns, d \in Conns :
       /\ c # d
       /\ Len(heap) = 2
       /\ CodeA \in DOMAIN rooms
       /\ heap[rooms[CodeA]].name = DefaultRoomName(CodeA)
       /\ heap[rooms[CodeA]].createdAt = now
       /\ now > 0
       /\ conn[c].state = "JOINED" /\ conn[c].room = rooms[CodeA]
       /\ conn[d].state = "JOINED" /\ conn[d].room = rooms[CodeA]
       /\ Welcomed(out, conn, d, CodeA)
       /\ out.ws[d][1].count = 2

\* a connection is joined to the room object
HasLive(obj) == \E c \in Conns : conn[c].state = "JOINED" /\ conn[c].room = obj

\* C9: the global room is in the registry in every reachable state, the
\* room object of the start.
C9_GlobalRoomPresent ==
    /\ GLOBAL_ROOM_ID \in DOMAIN rooms
    /\ rooms[GLOBAL_ROOM_ID] = 1
    /\ heap[1].isGlobal

\* the global room is older than the threshold and has no live participant,
\* and a sweep has evicted every other room that was created
C9_Witness ==
    /\ now - heap[1].createdAt > IdleThreshold
    /\ ~HasLive(1)
    /\ Len(heap) > 1
    /\ DOMAIN rooms = {GLOBAL_ROOM_ID}

\* C10: a sweep removes from the registry exactly the rooms that are not
\* global, have no live participant and are older than the threshold; every
\* other room stays, mapped to the same object.
C10_SweepStep ==
    Cleanup =>
       /\ DOMAIN rooms' \subseteq DOMAIN rooms
       /\ \A r \in DOMAIN rooms :
             /\ r \in DOMAIN rooms' <=>
                  ~(/\ ~heap[rooms[r]].isGlobal
                    /\ ~HasLive(rooms[r])
                    /\ now - heap[rooms[r]].createdAt > 3600000)
             /\ r \in DOMAIN rooms' => rooms'[r] = rooms[r]

LeftRecently(obj, t) ==
    \E c \in Conns : /\ conn[c].state = "CLOSED"
                      /\ conn[c].room = obj
                      /\ t - conn[c].closedAt < IdleThreshold

\* C11: a room that is not global and whose last live participant
\* disconnected less than the idle threshold before a sweep is still in the
\* registry after that sweep.
C11_SweepStep ==
    Cleanup =>
       \A r \in DOMAIN rooms :
          /\ r # GLOBAL_ROOM_ID
          /\ ~HasLive(rooms[r])
          /\ LeftRecently(rooms[r], now)
          => r \in DOMAIN rooms'

C11_SweepWaitsForIdlePeriod == [][C11_SweepStep]_vars

\* the table u2 begins with the entries of the table u1
PrefixOf(u1, u2) == Len(u1) <= Len(u2) /\ SubSeq(u2, 1, Len(u1)) = u1

\* C12: a step takes a room out of the registry, or registers another object
\* under its id, only when it is a sweep; after a join and after a room
\* creation request every registered room is registered still and its table
\* holds the entries it held.
C12_Step ==
    /\ (\E r \in DOMAIN rooms : r \notin DOMAIN rooms' \/ rooms'[r] # rooms[r])
          => Cleanup
    /\ \/ \E c \in Conns : Joins(c)
       \/ \E body \in Bodies, bytes \in RandomBytes3 : PostRooms(body, bytes)
       => \A r \in DOMAIN rooms :
             /\ r \in DOMAIN rooms'
             /\ PrefixOf(heap[rooms[r]].users, heap'[rooms'[r]].users)

C12_OnlySweeperDestroys == [][C12_Step]_vars

\* C13: the step in which connection c joins sends c exactly two messages:
\* first the welcome, with the participant id and the room id of c, the
\* room's name, own value 50 and the stats of the table that holds the
\* joiner, then the stats broadcast; no other connection gets a welcome in
\* that step.  No other step sends a welcome, a connection that has not
\* joined is sent nothing, and no connection joins twice.
C13_WelcomeStep ==
    \A c \in Conns :
       /\ Joins(c) =>
             LET sent == out'.ws[c]
                 users == heap'[conn'[c].room].users
             IN /\ Len(sent) = 2
                /\ sent[1].type = "welcome"
                /\ sent[2].type = "stats"
                /\ sent[1].userId = conn'[c].userId
                /\ sent[1].roomId = conn'[c].roomId
                /\ rooms'[sent[1].roomId] = conn'[c].room
                /\ sent[1].roomName = heap'[conn'[c].room].name
                /\ sent[1].boredom = 50
                /\ sent[1].count = Len(users)
                /\ Nearest(sent[1].average, Total(users), Scale * Len(users))
                /\ \E j \in 1..Len(sent[1].individuals) :
                      /\ sent[1].individuals[j].id = conn'[c].userId
                      /\ sent[1].individuals[j].boredom = 50
                /\ \A d \in Conns \ {c} : \A i \in 1..Len(out'.ws[d]) :
                      out'.ws[d][i].type # "welcome"
       /\ ~Joins(c) =>
             \A i \in 1..Len(out'.ws[c]) : out'.ws[c][i].type # "welcome"
       /\ conn'[c].state = "CONNECTING" => out'.ws[c] = <<>>
       /\ conn[c].state # "CONNECTING" => conn'[c].state # "CONNECTING"

C13_WelcomeOnceAndFirst == [][C13_WelcomeStep]_vars

\* a connection has just been sent its welcome and then the stats, the
\* welcome counts the joiner, and the other connection, in the same room, was
\* sent the stats only
C13_Witness ==
    \E c \in Conns, d \in Conns :
       /\ c # d
       /\ conn[d].room = conn[c].room
       /\ Len(out.ws[c]) = 2
       /\ out.ws[c][1].type = "welcome"
       /\ out.ws[c][1].count = Len(heap[conn[c].room].users)
       /\ \E j \in 1..Len(out.ws[c][1].individuals) :
             out.ws[c][1].individuals[j].id = conn[c].userId
       /\ Len(out.ws[d]) = 1
       /\ out.ws[d][1].type = "stats"

\* the entries of a table that are bots or belong to a connection that has
\* not closed
Present(users) ==
    {i \in 1..Len(users) :
        \/ users[i].isBot
        \/ \E c \in Conns : conn[c].state = "JOINED" /\ users[i].ws = c}

\* C14: no table of any room, registered or not, holds an entry of a
\* connection that has closed, neither under its socket nor under its
\* participant id, and the count of every registered room is the number of
\* its bots and of its participants whose connection has not closed.
C14_ClosedHaveNoEntry ==
    /\ \A c \in Conns :
          conn[c].state = "CLOSED" =>
             \A k \in 1..Len(heap) : \A i \in 1..Len(heap[k].users) :
                /\ heap[k].users[i].ws # c
                /\ heap[k].users[i].id # conn[c].userId
    /\ \A r \in DOMAIN rooms :
          getRoomStats(rooms, heap, r).count
             = Cardinality(Present(heap[rooms[r]].users))

\* one connection has closed and the other is still in the room they shared,
\* which counts one participant
C14_Witness ==
    \E c \in Conns, d \in Conns :
       /\ conn[c].state = "CLOSED"
       /\ conn[d].state = "JOINED"
       /\ conn[c].room = conn[d].room
       /\ conn[d].roomId \in DOMAIN rooms
       /\ rooms[conn[d].roomId] = conn[d].room
       /\ ~heap[conn[d].room].isGlobal
       /\ getRoomStats(rooms, heap, conn[d].roomId).count = 1

\* frames that do not parse, carry a tag the server does not know, or are an
\* update whose boredom is not a number
Dropped ==
    {Msg(FALSE, "", FALSE, 0, Null),
     Msg(TRUE, "ping", FALSE, 0, Null),
     Msg(TRUE, "update", FALSE, 0, Null)}

\* C15: a message that does not parse, has an unknown tag, or is an update
\* without a numeric boredom changes no room and no table, is answered with
\* nothing, to the sender or to anyone, and leaves the sender JOINED with its
\* entry in its room's table.
C15_DropStep ==
    \A c \in Conns : \A m \in Dropped :
       conn' = conn /\ Message(c, m) =>
          /\ rooms' = rooms
          /\ heap' = heap
          /\ out'.ws = NoSends
          /\ out'.http = NoResp
          /\ conn'[c].state = "JOINED"
          /\ \E i \in 1..Len(heap'[conn'[c].room].users) :
                /\ heap'[conn'[c].room].users[i].ws = c
                /\ heap'[conn'[c].room].users[i].id = conn'[c].userId

C15_BadMessagesDropped == [][C15_DropStep]_vars

\* both connections are joined to one room with open sockets, one of them
\* has set a value and a name, and the last step, a message, sent nothing
C15_Witness ==
    \E c \in Conns, d \in Conns :
       /\ c # d
       /\ IsOpen(conn, c)
       /\ IsOpen(conn, d)
       /\ conn[c].room = conn[d].room
       /\ EntryOf(conn, heap, c).boredom = 100 * Scale
       /\ EntryOf(conn, heap, c).name = ShortName
       /\ out = Output(NoSends, NoResp)

\* the step ends in a broadcast to the room object k: a join or a close of a
\* connection of k, an update or a setName from one, a tick of a bot
Triggers(k) ==
    \/ \E c \in Conns : Joins(c) /\ conn'[c].room = k
    \/ \E c \in Conns : /\ conn[c].state = "JOINED"
                         /\ conn'[c].state = "CLOSED"
                         /\ conn[c].room = k
    \/ \E c \in Conns : /\ conn' = conn
                         /\ conn[c].room = k
                         /\ \/ Message(c, UpdateHigh)
                            \/ Message(c, SetNameMsg(ShortName))
    \/ botTicks' # botTicks /\ k = rooms[GLOBAL_ROOM_ID]

\* C16: in a step that ends in a broadcast to a room, every connection of
\* the room whose socket is open is sent, last, the stats of the room's
\* table as the step leaves it, whichever other connections of the room
\* cannot be sent to; a connection that cannot be sent to is sent nothing,
\* and unless the step is its own close it keeps its state and its entry.
C16_BroadcastStep ==
    \A k \in 1..Len(heap') :
       Triggers(k) =>
          /\ \A d \in Conns :
                IsOpen(conn', d) /\ conn'[d].room = k =>
                   /\ out'.ws[d] # <<>>
                   /\ out'.ws[d][Len(out'.ws[d])].type = "stats"
                   /\ rooms'[conn'[d].roomId] = k
                   /\ Content(out'.ws[d][Len(out'.ws[d])])
                        = Content(getRoomStats(rooms', heap', conn'[d].roomId))
                   /\ out'.ws[d][Len(out'.ws[d])].count = Len(heap'[k].users)
          /\ \A d \in Conns :
                /\ conn[d].state = "JOINED"
                /\ conn[d].readyState # "OPEN"
                /\ conn[d].room = k
                => /\ out'.ws[d] = <<>>
                   /\ \/ /\ conn'[d].state = "CLOSED"
                         /\ \A c \in Conns \ {d} : conn'[c] = conn[c]
                      \/ /\ conn'[d] = conn[d]
                         /\ \E i \in 1..Len(heap'[k].users) :
                               heap'[k].users[i].ws = d

ResolvedName(body, id) ==
    IF body.name # Null /\ Len(body.name) > 0
      THEN body.name
      ELSE <<"R", "o", "o", "m", " ">> \o id

\* C17: a POST /api/rooms whose body parses is answered 200 with an id of six
\* upper-case letters and digits and with the resolved name: the name of the
\* body when it has one, "Room " + id otherwise; after it the registry holds
\* under that id a room that is not global, has that name and an empty
\* table, and every room registered before is registered with the table it
\* had.
C17_PostStep ==
    \A body \in Bodies, bytes \in RandomBytes3 :
       body.parses /\ PostRooms(body, bytes) =>
          /\ out'.http.status = 200
          /\ out'.ws = NoSends
          /\ LET id == out'.http.body.roomId
             IN /\ WellFormed(id)
                /\ id # GLOBAL_ROOM_ID
                /\ id \in DOMAIN rooms'
                /\ ~heap'[rooms'[id]].isGlobal
                /\ heap'[rooms'[id]].users = <<>>
                /\ heap'[rooms'[id]].name = ResolvedName(body, id)
                /\ out'.http.body.roomName = ResolvedName(body, id)
          /\ \A r \in DOMAIN rooms :
                /\ r \in DOMAIN rooms'
                /\ heap'[rooms'[r]].users = heap[rooms[r]].users

C17_PostCreatesRoom == [][C17_PostStep]_vars

\* a request body on which JSON.parse throws
BadBody == [parses |-> FALSE, name |-> Null]

\* C18: a POST /api/rooms whose body does not parse is answered 400 with an
\* error body, and registry, rooms, tables and connections are as they were.
C18_BadBodyStep ==
    \A bytes \in RandomBytes3 :
       PostRooms(BadBody, bytes) =>
          /\ out'.http.status = 400
          /\ DOMAIN out'.http.body = {"error"}
          /\ out'.ws = NoSends
          /\ rooms' = rooms
          /\ heap' = heap
          /\ conn' = conn

C18_BadBodyRejected == [][C18_BadBodyStep]_vars

\* the 400 response has just been given while a room other than the global
\* one is registered with a participant in it
C18_Witness ==
    /\ out.http.status = 400
    /\ \E r \in DOMAIN rooms :
          /\ r # GLOBAL_ROOM_ID
          /\ Len(heap[rooms[r]].users) = 1
          /\ HasLive(rooms[r])

CodeB == generateRoomCode(<<0, 255, 16>>)

\* C19: GET /api/rooms/{roomId} is answered 200 with the stats of the table
\* registered under roomId (its count, the rounded mean of its values or 50
\* when it is empty, one individual per entry) when roomId is in the
\* registry, and 404 with an error body when it is not; it changes nothing.
C19_GetStep ==
    \A roomId \in RoomIds :
       GetRoom(roomId) =>
          /\ UNCHANGED <<rooms, heap, conn, now, botTicks>>
          /\ out'.ws = NoSends
          /\ IF roomId \in DOMAIN rooms
               THEN LET users == heap[rooms[roomId]].users
                        body == out'.http.body
                    IN /\ out'.http.status = 200
                       /\ Content(body)
                            = Content(getRoomStats(rooms, heap, roomId))
                       /\ body.count = Len(users)
                       /\ IF Len(users) = 0 THEN body.average = 50
                          ELSE Nearest(body.average, Total(users),
                                       Scale * Len(users))
                       /\ Len(body.individuals) = Len(users)
                       /\ \A i \in 1..Len(users) :
                             body.individuals[i].id = users[i].id
               ELSE /\ out'.http.status = 404
                    /\ DOMAIN out'.http.body = {"error"}

C19_GetRoomStatsOr404 == [][C19_GetStep]_vars

\* both codes were registered once and a sweep has evicted both rooms; the
\* request for one of them has just been answered 404
C19_Witness ==
    /\ out.http.status = 404
    /\ DOMAIN rooms = {GLOBAL_ROOM_ID}
    /\ Len(heap) = 3
    /\ heap[2].name = DefaultRoomName(CodeA)
    /\ heap[3].name = DefaultRoomName(CodeB)

\* the entries of a table that belong to a connection and are not bots
LiveEntries(users) ==
    {i \in 1..Len(users) : ~users[i].isBot /\ users[i].ws # NoConn}

\* C20: the body of a health response gives, as rooms, the number of rooms
\* in the registry, the global room among them, and, as globalUsers, the
\* number of participants of the global room that are backed by a connection
\* and are not bots.
C20_HealthCountsLiveUsers ==
    out.http.status = 200 /\ "globalUsers" \in DOMAIN out.http.body =>
       /\ out.http.body.rooms = Cardinality(DOMAIN rooms)
       /\ GLOBAL_ROOM_ID \in DOMAIN rooms
       /\ out.http.body.globalUsers
            = Cardinality(LiveEntries(heap[rooms[GLOBAL_ROOM_ID]].users))

\* the bot entries of a table
BotEntries(users) == {i \in 1..Len(users) : users[i].isBot}

\* C21: the table of the global room holds exactly one bot entry for each
\* bot profile, under the profile's id and name and without a socket, and
\* no other bot entry; the table of a room that is not global holds no bot
\* entry.
C21_BotsOnlyInGlobal ==
    /\ GLOBAL_ROOM_ID \in DOMAIN rooms
    /\ LET users == heap[rooms[GLOBAL_ROOM_ID]].users
       IN /\ Cardinality(BotEntries(users)) = Len(bots)
          /\ \A b \in 1..Len(bots) :
                Cardinality({i \in BotEntries(users) :
                               /\ users[i].id = bots[b].id
                               /\ users[i].name = bots[b].name
                               /\ users[i].ws = NoConn}) = 1
    /\ \A k \in 1..Len(heap) :
          ~heap[k].isGlobal => BotEntries(heap[k].users) = {}

\* a connection has joined the global room and closed, a bot has ticked, and
\* a sweep has evicted the rooms created since
C21_Witness ==
    /\ conn[1].state = "CLOSED"
    /\ conn[1].room = rooms[GLOBAL_ROOM_ID]
    /\ botTicks > 0
    /\ Len(heap) > 1
    /\ DOMAIN rooms = {GLOBAL_ROOM_ID}
    /\ now > IdleThreshold

\* C22: a close event for a connection that is CLOSED changes no table and
\* sends nothing.
C22_CloseAgainStep ==
    \A c \in Conns :
       CloseAgain(c) =>
          /\ heap' = heap
          /\ rooms' = rooms
          /\ conn' = conn
          /\ out'.ws = NoSends

C22_CloseIdempotent == [][C22_CloseAgainStep]_vars

\* C23: a message handled for a connection that is CLOSED, whatever it is,
\* changes no table, no room and no connection, sends nothing, and leaves
\* every table without an entry of that connection.
C23_LateMessageStep ==
    \A c \in Conns : \A m \in Messages :
       MessageAfterClose(c, m) =>
          /\ heap' = heap
          /\ rooms' = rooms
          /\ conn' = conn
          /\ out'.ws = NoSends
          /\ \A k \in 1..Len(heap') : \A i \in 1..Len(heap'[k].users) :
                /\ heap'[k].users[i].ws # c
                /\ heap'[k].users[i].id # conn[c].userId

C23_LateMessagesIgnored == [][C23_LateMessageStep]_vars

\* one connection has closed, the other connection of its room is joined
\* with an open socket, and the last step sent nothing: it handled a message
\* for the closed one
C23_Witness ==
    \E c \in Conns, d \in Conns :
       /\ conn[c].state = "CLOSED"
       /\ IsOpen(conn, d)
       /\ conn[d].room = conn[c].room
       /\ Len(heap[conn[d].room].users) > 0
       /\ out = Output(NoSends, NoResp)

\* the connections a step sends something to
Receivers(o) == {d \in Conns : o.ws[d] # <<>>}

\* the last message a step sends to d
LastSent(o, d) == o.ws[d][Len(o.ws[d])]

\* the step ends in a broadcast for the room id rid: a join or a close of a
\* connection that asked for rid, an update or a setName from one, a tick of
\* a bot
TriggersFor(rid) ==
    \/ \E c \in Conns : Joins(c) /\ conn'[c].roomId = rid
    \/ \E c \in Conns : /\ conn[c].state = "JOINED"
                         /\ conn'[c].state = "CLOSED"
                         /\ conn[c].roomId = rid
    \/ \E c \in Conns : /\ conn' = conn
                         /\ conn[c].roomId = rid
                         /\ \/ Message(c, UpdateHigh)
                            \/ Message(c, SetNameMsg(ShortName))
    \/ botTicks' # botTicks /\ rid = GLOBAL_ROOM_ID

\* the room ids of the registry and of the connections
KnownIds(rms, cn) == DOMAIN rms \cup {cn[c].roomId : c \in Conns}

\* C24: a step that ends in a broadcast for a room id sends to exactly the
\* connections that have an open socket and an entry in the table registered
\* under that id, and to each of them, last, one and the same stats payload,
\* that of this table; connections without an open socket and connections
\* of other rooms are sent nothing, and a step that ends in no broadcast
\* sends nothing.
C24_ExactStep ==
    /\ \A rid \in KnownIds(rooms', conn') :
          TriggersFor(rid) =>
             Receivers(out') =
                IF rid \in DOMAIN rooms'
                  THEN {d \in Conns :
                          /\ IsOpen(conn', d)
                          /\ \E i \in 1..Len(heap'[rooms'[rid]].users) :
                                heap'[rooms'[rid]].users[i].ws = d}
                  ELSE {}
    /\ (\A rid \in KnownIds(rooms', conn') : ~TriggersFor(rid))
          => Receivers(out') = {}
    /\ \A d \in Receivers(out') :
          /\ LastSent(out', d).type = "stats"
          /\ LastSent(out', d).roomId = conn'[d].roomId
          /\ LastSent(out', d)
               = StatsMessage(getRoomStats(rooms', heap', conn'[d].roomId))
          /\ \A e \in Receivers(out') : LastSent(out', e) = LastSent(out', d)

C24_BroadcastReachesExactlyRoom == [][C24_ExactStep]_vars

\* two connections are joined to different rooms with open sockets; the
\* update of one has just been broadcast to it and the other was sent nothing
C24_Witness ==
    \E c \in Conns, d \in Conns :
       /\ IsOpen(conn, c)
       /\ IsOpen(conn, d)
       /\ conn[c].room # conn[d].room
       /\ EntryOf(conn, heap, c).boredom = 100 * Scale
       /\ Len(out.ws[c]) = 1
       /\ out.ws[c][1].type = "stats"
       /\ out.ws[d] = <<>>

\* in units of 1/(10 * Scale): the least and the greatest value of
\* current + (target - current) * 0.1 + noise, for a noise of at most half
\* the volatility in magnitude
TickLow(bot, cur) == 9 * cur + bot.boredom * Scale - 5 * bot.volatility * Scale

TickHigh(bot, cur) == 9 * cur + bot.boredom * Scale + 5 * bot.volatility * Scale

\* v is clamp(x, 0, 100) for some x in that range
TickResult(bot, cur, v) ==
    \/ 0 < v /\ v < 100 * Scale
         /\ TickLow(bot, cur) <= 10 * v /\ 10 * v <= TickHigh(bot, cur)
    \/ v = 0 /\ TickLow(bot, cur) <= 0
    \/ v = 100 * Scale /\ TickHigh(bot, cur) >= 1000 * Scale

C25_BotValuesInRange ==
    \A k \in 1..Len(heap) : \A i \in 1..Len(heap[k].users) :
       heap[k].users[i].isBot =>
          heap[k].users[i].boredom >= 0 /\ heap[k].users[i].boredom <= 100 * Scale

C25_TickStep ==
    botTicks' # botTicks =>
       /\ rooms' = rooms
       /\ conn' = conn
       /\ Len(heap') = Len(heap)
       /\ \A k \in 1..Len(heap) : k # rooms[GLOBAL_ROOM_ID] => heap'[k] = heap[k]
       /\ LET users == heap[rooms[GLOBAL_ROOM_ID]].users
              after == heap'[rooms[GLOBAL_ROOM_ID]].users
          IN /\ Len(after) = Len(users)
             /\ \E b \in 1..Len(bots) : \E i \in 1..Len(users) :
                   /\ users[i].id = bots[b].id
                   /\ \A j \in 1..Len(users) : j # i => after[j] = users[j]
                   /\ after[i] = [users[i] EXCEPT !.boredom = after[i].boredom]
                   /\ TickResult(bots[b], users[i].boredom, after[i].boredom)
             /\ \A d \in Conns :
                   out'.ws[d] =
                      IF IsOpen(conn, d) /\ conn[d].room = rooms[GLOBAL_ROOM_ID]
                        THEN <<StatsMessage(getRoomStats(rooms', heap',
                                                         GLOBAL_ROOM_ID))>>
                        ELSE <<>>

\* C25: the value of every bot is in [0, 100] in every state; a bot tick
\* changes nothing but the stored value of one bot of the global room, the
\* new value is clamp(current + (target - current) * 0.1 + noise, 0, 100)
\* for a noise of magnitude at most half the volatility, and the stats of
\* the global room are then sent to its open connections and to nobody else.
C25_BotTickClamped ==
    C25_BotValuesInRange /\ [][C25_BotValuesInRange' /\ C25_TickStep]_vars

\* the bots are at 100, 0, 100 and 100 after a tick that was limited: the
\* connection of the global room, still at its own start value, has just
\* been sent the one stats message of the tick
C25_Witness ==
    /\ botTicks = 1
    /\ \A i \in 1..Len(bots) :
          heap[1].users[i].boredom = <<100, 0, 100, 100>>[i] * Scale
    /\ IsOpen(conn, 1)
    /\ conn[1].room = 1
    /\ EntryOf(conn, heap, 1).boredom = 50 * Scale
    /\ conn[2].state = "CONNECTING"
    /\ Len(out.ws[1]) = 1

\* the response of a step is that of the health check, of a room stats
\* request, of a room creation request
IsHealthResponse(r) == r.status = 200 /\ "globalUsers" \in DOMAIN r.body

IsGetRoomResponse(r) ==
    \/ r.status = 404
    \/ r.status = 200 /\ "average" \in DOMAIN r.body

IsPostResponse(r) ==
    \/ r.status = 400
    \/ r.status = 200 /\ DOMAIN r.body = {"roomId", "roomName"}

\* C26: a step that answers a health check or a room stats request leaves
\* the registry, every room object with its table, and every connection as
\* they were; a step that answers a room creation request changes the
\* registry only: every room object that existed keeps its table, name and
\* creation time, and connections are as they were.  None of the three sends
\* anything on a WebSocket connection, and no other step gives an HTTP
\* response.
C26_HttpStep ==
    /\ IsHealthResponse(out'.http) \/ IsGetRoomResponse(out'.http) =>
          /\ rooms' = rooms
          /\ heap' = heap
          /\ conn' = conn
          /\ out'.ws = NoSends
    /\ IsPostResponse(out'.http) =>
          /\ Len(heap') >= Len(heap)
          /\ \A k \in 1..Len(heap) : heap'[k] = heap[k]
          /\ conn' = conn
          /\ out'.ws = NoSends
    /\ \/ out'.http = NoResp
       \/ IsHealthResponse(out'.http)
       \/ IsGetRoomResponse(out'.http)
       \/ IsPostResponse(out'.http)

C26_QueriesChangeNothing == [][C26_HttpStep]_vars

\* the health check has just been answered while a connection is joined to
\* a room other than the global one, a bot has ticked and time has passed
C26_Witness ==
    /\ IsHealthResponse(out.http)
    /\ conn[1].state = "JOINED"
    /\ conn[1].room # rooms[GLOBAL_ROOM_ID]
    /\ botTicks > 0
    /\ now > 0

\* C28: every JOINED connection has its entry in the table of the room
\* object that the registry maps its room id to, which is the object its
\* handlers hold.
C28_JoinedInRegisteredRoom ==
    \A c \in Conns :
       conn[c].state = "JOINED" =>
          /\ conn[c].roomId \in DOMAIN rooms
          /\ rooms[conn[c].roomId] = conn[c].room
          /\ \E i \in 1..Len(heap[rooms[conn[c].roomId]].users) :
                /\ heap[rooms[conn[c].roomId]].users[i].ws = c
                /\ heap[rooms[conn[c].roomId]].users[i].id = conn[c].userId

\* an update with a numeric boredom, or a setName with a name
Accepted ==
    {m \in Messages :
        /\ m.parses
        /\ \/ m.type = "update" /\ m.numeric
           \/ m.type = "setName" /\ m.name # Null /\ Len(m.name) > 0}

\* C29: an accepted update or setName from connection c leaves the registry
\* and every other room object as they were; in the room of c the table
\* keeps its length and its order, every entry but that of c is as it was,
\* and the entry of c keeps its id, socket and bot flag, and its name after
\* an update, its value after a setName.
C29_OwnEntryStep ==
    \A c \in Conns : \A m \in Accepted :
       conn' = conn /\ Message(c, m) =>
          /\ rooms' = rooms
          /\ Len(heap') = Len(heap)
          /\ \A k \in 1..Len(heap) : k # conn[c].room => heap'[k] = heap[k]
          /\ LET users == heap[conn[c].room].users
                 after == heap'[conn[c].room].users
             IN /\ Len(after) = Len(users)
                /\ \A j \in 1..Len(users) :
                      IF users[j].ws = c
                        THEN /\ after[j].id = users[j].id
                             /\ after[j].ws = c
                             /\ after[j].isBot = users[j].isBot
                             /\ m.type = "update" => after[j].name = users[j].name
                             /\ m.type = "setName"
                                  => after[j].boredom = users[j].boredom
                        ELSE after[j] = users[j]

C29_MessagesChangeOwnEntryOnly == [][C29_OwnEntryStep]_vars

\* of two connections in one room, the one that joined first has set its
\* value and its name, and the other still has the value and the absent name
\* of its join
C29_Witness ==
    \E c \in Conns, d \in Conns :
       /\ c < d
       /\ conn[c].state = "JOINED"
       /\ conn[d].state = "JOINED"
       /\ conn[c].room = conn[d].room
       /\ EntryOf(conn, heap, c).boredom = 100 * Scale
       /\ EntryOf(conn, heap, c).name = ShortName
       /\ EntryOf(conn, heap, d).boredom = 50 * Scale
       /\ EntryOf(conn, heap, d).name = Null
       /\ Len(out.ws[d]) = 1

\* a table holds an entry that belongs to a connection
LiveEntryLeft == \E k \in 1..Len(heap) : LiveEntries(heap[k].users) # {}

\* C27: when the process has exited after SIGTERM, every connection that was
\* JOINED is CLOSED and no table holds the entry of a connection.
C27_AllClosedBeforeExit ==
    proc.phase = "exited" =>
       /\ \A c \in Conns : conn[c].state # "JOINED"
       /\ ~LiveEntryLeft

\* the sockets of the hook that are connecting or open
OpenSockets ==
    {s \in 1..Len(client.sockets) :
        client.sockets[s].readyState \in {"CONNECTING", "OPEN"}}

PendingTimers ==
    {t \in 1..Len(client.timers) : client.timers[t].state = "pending"}

\* C30: a hook instance has at most one socket that is connecting or open,
\* and once it is unmounted it has none and no reconnect is scheduled.
C30_OneSocketPerHook ==
    /\ Cardinality(OpenSockets) <= 1
    /\ client # NoClient /\ ~client.mounted =>
          OpenSockets = {} /\ PendingTimers = {}

====
